---- MODULE Spec2Model ----
(***************************************************************************)
(* Model of the processing agent of A2AClientServer/processing_agent_py:   *)
(* ProcessingAgent.invoke and ProcessingAgentExecutor.execute / cancel     *)
(* (agents.py), served by the single executor that server.py hands to the  *)
(* request handler.                                                        *)
(*                                                                         *)
(* One executor object serves every task, so there is ONE _cancelled flag. *)
(* execute is split at the places where its control can be observed from   *)
(* outside: the delegate call (client.chat.completions.create) and the two *)
(* awaits of event_queue.enqueue_event.                                    *)
(*                                                                         *)
(* invoke is an "async def" whose body has no await: it calls the          *)
(* synchronous AzureOpenAI client, so while a task is inside the call the  *)
(* event loop that runs the executes is held by that task (LoopFree).      *)
(* cancel is a plain flag write that any caller may issue at any moment    *)
(* (the two "if not self._cancelled" re-checks of execute exist for that). *)
(*                                                                         *)
(* Spec      : start-up of the executor, then the tasks it serves.         *)
(* SpecData  : the data model of models.py (to_dict / from_dict), the      *)
(*             payload selection of execute / invoke and the business rule *)
(*             evaluator, each applied to an input drawn by the initial    *)
(*             state.                                                      *)
(* SpecStore : the task store behind the request handler of server.py.     *)
(***************************************************************************)
EXTENDS Naturals, Sequences, FiniteSets, TLC

\* ---------------------------------------------------------------- bounds
NumTasks == 2

Tasks == 1 .. NumTasks

\* ------------------------------------------------------------ input sets
\* An attribute of the request context that is absent or None.
Missing == "<missing>"

ContentVals == {Missing, "", "po-json"}
MessageVals == {Missing, "", "po-msg"}

\* Request contexts of the tasks served in Spec: one with content, one with
\* nothing to say (every combination is applied in SpecData).
ServedContexts ==
    {[content |-> "po-json", message |-> Missing],
     [content |-> Missing, message |-> ""]}

\* Texts the completion service can return, and failures it can raise.
DelegateTexts  == {"csv-line"}
DelegateErrors == {"timeout"}

\* ------------------------------------------------------------- variables
VARIABLES
    cancelled,   \* self._cancelled of the one ProcessingAgentExecutor
    pc,          \* pc[t]: where task t's execute coroutine stands
    payload,     \* payload[t]: user content handed to the delegate
    calls,       \* calls[t]: number of delegate invocations made for t
    delegate,    \* delegate[t]: "none" | "returned" | "failed"
    pending,     \* pending[t]: text of the message execute is enqueuing
    queue,       \* queue[t]: events enqueued on t's event queue
    exit,        \* exit[t]: the place where execute left, "" while running
    enqFails,    \* enqFails[t]: enqueue_event calls of t that raised
    cancelAt,    \* cancelAt[t]: phases of t at which a cancel for t was issued
    executor,    \* outcome of ProcessingAgentExecutor(): status and missing settings
    fn,          \* SpecData / SpecStore: the operation last applied
    arg,         \* SpecData / SpecStore: its input
    res,         \* SpecData / SpecStore: its result
    store        \* SpecStore: task identity -> task record

execVars == <<cancelled, pc, payload, calls, delegate, pending, queue, exit, enqFails, cancelAt>>

vars == <<cancelled, pc, payload, calls, delegate, pending, queue, exit, enqFails, cancelAt,
          executor, fn, arg, res, store>>

\* ------------------------------------------------------ pure definitions
Truthy(v) == v # Missing /\ v # ""

\* Variant of InputMessage that prefers message over content.
InputMessage_MessageFirst(content, message) ==
    IF Truthy(message) THEN message
    ELSE IF Truthy(content) THEN content
    ELSE ""

\* execute, lines 94-99: content wins over message, else the empty string.
InputMessage(content, message) ==
    IF Truthy(content) THEN content
    ELSE IF Truthy(message) THEN message
    ELSE ""

GreetingPrompt == "Hello, please introduce yourself."

\* invoke, line 67: message or the fixed greeting.
UserPayload(message) == IF message = "" THEN GreetingPrompt ELSE message

\* invoke, lines 71-72: a failure of the call becomes returned text.
InvokeErrorText(e) == "Error processing request: " \o e

\* execute, line 117.
ProcessingFailedText(e) == "Processing failed: " \o e

EnqueueError == "enqueue failed"

\* new_agent_text_message + the site that built it: line 106 (result) or
\* line 116 (error response).
Event(t, kind, text) == [task |-> t, kind |-> kind, text |-> text]

\* The event loop is free for t unless another task sits in the synchronous
\* client call made by invoke.
LoopFree(t) == \A u \in Tasks \ {t} : pc[u] # "invoke"

\* ------------------------------------------------------------------ Init
\* The data and store variables while the specification at hand does not
\* use them.
DataIdle == fn = "idle" /\ arg = <<>> /\ res = <<>>
StoreIdle == store = <<>>

\* ProcessingAgentExecutor.__init__, line 78, before any task has run.
InitExec ==
    /\ cancelled = FALSE
    /\ pc = [t \in Tasks |-> "created"]
    /\ payload = [t \in Tasks |-> ""]
    /\ calls = [t \in Tasks |-> 0]
    /\ delegate = [t \in Tasks |-> "none"]
    /\ pending = [t \in Tasks |-> ""]
    /\ queue = [t \in Tasks |-> <<>>]
    /\ exit = [t \in Tasks |-> ""]
    /\ enqFails = [t \in Tasks |-> 0]
    /\ cancelAt = [t \in Tasks |-> {}]

\* ------------------------------------------------------------- start-up
\* os.getenv: a variable is unset, set to the empty string, or set.
EnvVals == {Missing, "", "set"}

Envs == [ENDPOINT : EnvVals, API_KEY : EnvVals, DEPLOYMENT_NAME : EnvVals,
         API_VERSION : {Missing, "set"}]

\* ProcessingAgentExecutor.__init__ passes no argument to ProcessingAgent.
NoArgs == [endpoint |-> Missing, api_key |-> Missing, deployment_name |-> Missing,
           api_version |-> Missing]

\* "x or os.getenv(...)".
OrElse(x, y) == IF Truthy(x) THEN x ELSE y

\* ProcessingAgent.__init__, lines 19-22: the settings the agent keeps.
AgentSettings(args, env) ==
    [endpoint        |-> OrElse(args.endpoint, env.ENDPOINT),
     api_key         |-> OrElse(args.api_key, env.API_KEY),
     api_version     |-> OrElse(args.api_version, env.API_VERSION),
     deployment_name |-> OrElse(args.deployment_name, env.DEPLOYMENT_NAME)]

\* Variant of ConfigComplete that forgets the deployment name.
ConfigComplete_NoDeployment(cfg) == Truthy(cfg.endpoint) /\ Truthy(cfg.api_key)

\* ProcessingAgent.__init__, line 24: all([endpoint, api_key, deployment_name]).
ConfigComplete(cfg) ==
    Truthy(cfg.endpoint) /\ Truthy(cfg.api_key) /\ Truthy(cfg.deployment_name)

RequiredSettings == {"endpoint", "api_key", "deployment_name"}

\* The required settings that neither the arguments nor the environment give.
MissingSettings(args, env) ==
    {k \in RequiredSettings : ~Truthy(args[k]) /\
        ~Truthy(env[CASE k = "endpoint" -> "ENDPOINT"
                      [] k = "api_key" -> "API_KEY"
                      [] OTHER -> "DEPLOYMENT_NAME"])}

\* server.py line 24 -> create_processing_agent_executor -> lines 76-78 and
\* 18-25: the executor is built once, from the environment; a ValueError of
\* the agent ends the start-up.
CreateExecutor(env) ==
    /\ executor.status = "unbuilt"
    /\ executor' = [status  |-> IF ConfigComplete(AgentSettings(NoArgs, env))
                                THEN "ok" ELSE "config_error",
                    missing |-> MissingSettings(NoArgs, env)]
    /\ UNCHANGED <<execVars, fn, arg, res, store>>

\* A task is served only by an executor that was built; serving leaves the
\* executor and the variables of the other specifications alone.
ExecutorServing ==
    /\ executor.status = "ok"
    /\ UNCHANGED <<executor, fn, arg, res, store>>

Init ==
    /\ InitExec
    /\ executor = [status |-> "unbuilt", missing |-> {}]
    /\ DataIdle
    /\ StoreIdle

\* --------------------------------------------------------------- actions
\* The phase of t's execution a cancel request meets.
Phase(t) ==
    CASE pc[t] = "created" -> "before"
      [] pc[t] = "invoke" -> "inflight"
      [] pc[t] \in {"enq_result", "enq_error"} -> "enqueue"
      [] OTHER -> "after"

\* Variant of Cancel that also withdraws what a finished task had produced.
Cancel_Retracts(t) ==
    /\ ExecutorServing
    /\ cancelled' = TRUE
    /\ cancelAt' = [cancelAt EXCEPT ![t] = @ \cup {Phase(t)}]
    /\ queue' = [queue EXCEPT ![t] = <<>>]
    /\ exit' = [exit EXCEPT ![t] = IF pc[t] = "done" THEN "discarded" ELSE @]
    /\ UNCHANGED <<pc, payload, calls, delegate, pending, enqFails>>

\* cancel(): self._cancelled = True.  t is the task the caller means; the
\* method itself takes no task and writes the executor's only flag.
Cancel(t) ==
    /\ ExecutorServing
    /\ cancelled' = TRUE
    /\ cancelAt' = [cancelAt EXCEPT ![t] = @ \cup {Phase(t)}]
    /\ UNCHANGED <<pc, payload, calls, delegate, pending, queue, exit, enqFails>>

\* Variant of ExecuteCancelled that checks the flag only after the delegate
\* call (line 104), not before it.
ExecuteCancelled_CallsDelegate(t) ==
    /\ ExecutorServing
    /\ pc[t] = "created"
    /\ LoopFree(t)
    /\ cancelled
    /\ calls' = [calls EXCEPT ![t] = @ + 1]
    /\ pc' = [pc EXCEPT ![t] = "invoke"]
    /\ UNCHANGED <<cancelled, payload, delegate, pending, queue, exit, enqFails, cancelAt>>

\* Variant of ExecuteCancelled that consumes the cancellation (resets the flag).
ExecuteCancelled_Resets(t) ==
    /\ ExecutorServing
    /\ pc[t] = "created"
    /\ LoopFree(t)
    /\ cancelled
    /\ cancelled' = FALSE
    /\ pc' = [pc EXCEPT ![t] = "done"]
    /\ exit' = [exit EXCEPT ![t] = "early_return"]
    /\ UNCHANGED <<payload, calls, delegate, pending, queue, enqFails, cancelAt>>

\* execute, lines 90-92: the flag is set, return at once.
ExecuteCancelled(t) ==
    /\ ExecutorServing
    /\ pc[t] = "created"
    /\ LoopFree(t)
    /\ cancelled
    /\ pc' = [pc EXCEPT ![t] = "done"]
    /\ exit' = [exit EXCEPT ![t] = "early_return"]
    /\ UNCHANGED <<cancelled, payload, calls, delegate, pending, queue, enqFails, cancelAt>>

\* Variant of ExecuteStart without the flag check of line 91.
ExecuteStart_IgnoresFlag(t, content, message) ==
    /\ ExecutorServing
    /\ pc[t] = "created"
    /\ LoopFree(t)
    /\ payload' = [payload EXCEPT ![t] = UserPayload(InputMessage(content, message))]
    /\ calls' = [calls EXCEPT ![t] = @ + 1]
    /\ pc' = [pc EXCEPT ![t] = "invoke"]
    /\ UNCHANGED <<cancelled, delegate, pending, queue, exit, enqFails, cancelAt>>

\* execute, lines 90-102 and invoke, lines 62-69: pick the input message and
\* enter the delegate call.
ExecuteStart(t, content, message) ==
    /\ ExecutorServing
    /\ pc[t] = "created"
    /\ LoopFree(t)
    /\ ~cancelled
    /\ payload' = [payload EXCEPT ![t] = UserPayload(InputMessage(content, message))]
    /\ calls' = [calls EXCEPT ![t] = @ + 1]
    /\ pc' = [pc EXCEPT ![t] = "invoke"]
    /\ UNCHANGED <<cancelled, delegate, pending, queue, exit, enqFails, cancelAt>>

\* Variant of AfterInvoke without the flag re-check of line 104.
AfterInvoke_NoRecheck(t, result) ==
    /\ pending' = [pending EXCEPT ![t] = result]
    /\ pc' = [pc EXCEPT ![t] = "enq_result"]
    /\ exit' = exit

\* execute, lines 104-111, entered with the text invoke returned.
AfterInvoke(t, result) ==
    IF ~cancelled
    THEN /\ pending' = [pending EXCEPT ![t] = result]
         /\ pc' = [pc EXCEPT ![t] = "enq_result"]
         /\ exit' = exit
    ELSE /\ pending' = pending
         /\ pc' = [pc EXCEPT ![t] = "done"]
         /\ exit' = [exit EXCEPT ![t] = "discarded"]

\* invoke, line 70: the call returns text.
DelegateReturn(t, text) ==
    /\ ExecutorServing
    /\ pc[t] = "invoke"
    /\ delegate' = [delegate EXCEPT ![t] = "returned"]
    /\ AfterInvoke(t, text)
    /\ UNCHANGED <<cancelled, payload, calls, queue, enqFails, cancelAt>>

\* Variant of DelegateFail in which invoke calls the service again on failure.
DelegateFail_Retry(t, e) ==
    /\ ExecutorServing
    /\ pc[t] = "invoke"
    /\ calls' = [calls EXCEPT ![t] = @ + 1]
    /\ delegate' = [delegate EXCEPT ![t] = "failed"]
    /\ UNCHANGED <<cancelled, pc, payload, pending, queue, exit, enqFails, cancelAt>>

\* Variant of DelegateFail in which invoke lets the exception through to the
\* except block of execute (lines 113-121).
DelegateFail_Raises(t, e) ==
    /\ ExecutorServing
    /\ pc[t] = "invoke"
    /\ delegate' = [delegate EXCEPT ![t] = "failed"]
    /\ IF ~cancelled
       THEN /\ pending' = [pending EXCEPT ![t] = ProcessingFailedText(e)]
            /\ pc' = [pc EXCEPT ![t] = "enq_error"]
            /\ exit' = exit
       ELSE /\ pending' = pending
            /\ pc' = [pc EXCEPT ![t] = "done"]
            /\ exit' = [exit EXCEPT ![t] = "error_dropped"]
    /\ UNCHANGED <<cancelled, payload, calls, queue, enqFails, cancelAt>>

\* invoke, lines 71-72: the call raises; invoke returns the error text.
DelegateFail(t, e) ==
    /\ ExecutorServing
    /\ pc[t] = "invoke"
    /\ delegate' = [delegate EXCEPT ![t] = "failed"]
    /\ AfterInvoke(t, InvokeErrorText(e))
    /\ UNCHANGED <<cancelled, payload, calls, queue, enqFails, cancelAt>>

\* execute, line 111: enqueue_event(message) completes.
EnqueueResultOk(t) ==
    /\ ExecutorServing
    /\ pc[t] = "enq_result"
    /\ LoopFree(t)
    /\ queue' = [queue EXCEPT ![t] = Append(@, Event(t, "result", pending[t]))]
    /\ pc' = [pc EXCEPT ![t] = "done"]
    /\ exit' = [exit EXCEPT ![t] = "sent_result"]
    /\ UNCHANGED <<cancelled, payload, calls, delegate, pending, enqFails, cancelAt>>

\* Variant of EnqueueResultFail whose except block swallows the exception.
EnqueueResultFail_Swallows(t) ==
    /\ ExecutorServing
    /\ pc[t] = "enq_result"
    /\ LoopFree(t)
    /\ pc' = [pc EXCEPT ![t] = "done"]
    /\ exit' = [exit EXCEPT ![t] = "error_dropped"]
    /\ enqFails' = [enqFails EXCEPT ![t] = @ + 1]
    /\ UNCHANGED <<cancelled, payload, calls, delegate, pending, queue, cancelAt>>

\* execute, line 111 raises; lines 113-121 build the error response unless
\* the flag is set by now.
EnqueueResultFail(t) ==
    /\ ExecutorServing
    /\ pc[t] = "enq_result"
    /\ LoopFree(t)
    /\ IF ~cancelled
       THEN /\ pending' = [pending EXCEPT ![t] = ProcessingFailedText(EnqueueError)]
            /\ pc' = [pc EXCEPT ![t] = "enq_error"]
            /\ exit' = exit
       ELSE /\ pending' = pending
            /\ pc' = [pc EXCEPT ![t] = "done"]
            /\ exit' = [exit EXCEPT ![t] = "error_dropped"]
    /\ enqFails' = [enqFails EXCEPT ![t] = @ + 1]
    /\ UNCHANGED <<cancelled, payload, calls, delegate, queue, cancelAt>>

\* execute, line 121: enqueue_event(error_message) completes.
EnqueueErrorOk(t) ==
    /\ ExecutorServing
    /\ pc[t] = "enq_error"
    /\ LoopFree(t)
    /\ queue' = [queue EXCEPT ![t] = Append(@, Event(t, "error", pending[t]))]
    /\ pc' = [pc EXCEPT ![t] = "done"]
    /\ exit' = [exit EXCEPT ![t] = "sent_error"]
    /\ UNCHANGED <<cancelled, payload, calls, delegate, pending, enqFails, cancelAt>>

\* execute, line 121 raises inside the except block: the exception leaves
\* execute.
EnqueueErrorFail(t) ==
    /\ ExecutorServing
    /\ pc[t] = "enq_error"
    /\ LoopFree(t)
    /\ pc' = [pc EXCEPT ![t] = "done"]
    /\ exit' = [exit EXCEPT ![t] = "raised"]
    /\ enqFails' = [enqFails EXCEPT ![t] = @ + 1]
    /\ UNCHANGED <<cancelled, payload, calls, delegate, pending, queue, cancelAt>>

\* Any step of t's execute coroutine.
Execute(t) ==
    \/ ExecuteCancelled(t)
    \/ \E ctx \in ServedContexts : ExecuteStart(t, ctx.content, ctx.message)
    \/ \E text \in DelegateTexts : DelegateReturn(t, text)
    \/ \E e \in DelegateErrors : DelegateFail(t, e)
    \/ EnqueueResultOk(t)
    \/ EnqueueResultFail(t)
    \/ EnqueueErrorOk(t)
    \/ EnqueueErrorFail(t)

Next ==
    \/ \E env \in Envs : CreateExecutor(env)
    \/ \E t \in Tasks : Cancel(t)
    \/ \E t \in Tasks : Execute(t)

Spec == Init /\ [][Next]_vars

\* ----------------------------------------------------- derived task view
\* Lifecycle state of a task as execute's control flow determines it.
TaskState(t) ==
    CASE pc[t] = "created" -> "Created"
      [] pc[t] \in {"invoke", "enq_result", "enq_error"} -> "Running"
      [] exit[t] = "sent_result" -> "Completed"
      [] exit[t] \in {"sent_error", "raised"} -> "Failed"
      [] OTHER -> "Cancelled"

Terminal(t) == pc[t] = "done"

TypeOK ==
    /\ cancelled \in BOOLEAN
    /\ pc \in [Tasks -> {"created", "invoke", "enq_result", "enq_error", "done"}]
    /\ calls \in [Tasks -> 0 .. 1]
    /\ delegate \in [Tasks -> {"none", "returned", "failed"}]
    /\ enqFails \in [Tasks -> 0 .. 2]
    /\ \A t \in Tasks : Len(queue[t]) <= 1

\* How execute left when the cancellation flag cut the task short.
CancelExit(t) == exit[t] \in {"early_return", "discarded", "error_dropped"}

\* t passed the first flag check (line 91) and went on to the delegate.
Began(t) == pc[t] # "created" /\ exit[t] # "early_return"

\* ================================================================ claims

\* C1: a task for which cancel was requested before its execute started
\* never runs, never emits an event, never becomes Completed or Failed, and
\* is Cancelled once its execute has returned.
C1_CancelBeforeStart ==
    \A t \in Tasks :
        "before" \in cancelAt[t] =>
            /\ queue[t] = <<>>
            /\ TaskState(t) \in {"Created", "Cancelled"}
            /\ Terminal(t) => TaskState(t) = "Cancelled"

C1_Witness ==
    \E t \in Tasks : "before" \in cancelAt[t] /\ Terminal(t) /\ exit[t] = "early_return"

\* C2: a task for which cancel was requested while its delegate call was in
\* flight gets no event at all, whatever the call produces, and ends
\* Cancelled.
C2_CancelInFlightDiscards ==
    \A t \in Tasks :
        "inflight" \in cancelAt[t] =>
            /\ queue[t] = <<>>
            /\ pc[t] \notin {"enq_result", "enq_error"}
            /\ Terminal(t) => (TaskState(t) = "Cancelled" /\ exit[t] = "discarded")

C2_Witness ==
    \E t \in Tasks :
        "inflight" \in cancelAt[t] /\ Terminal(t) /\ delegate[t] \in {"returned", "failed"}

\* C3 (as stated): every task that began without cancellation has exactly
\* one terminal event once execute is over.
C3_ExactlyOneEvent ==
    \A t \in Tasks : (Began(t) /\ Terminal(t)) => Len(queue[t]) = 1

\* C3 (amended): a task that began never has more than one event; once
\* execute is over it has exactly the event of the place it left by, and it
\* has none only if the flag was set before a later check or both enqueues
\* raised.
C3_OneEventUnlessCancelledOrRaised ==
    \A t \in Tasks :
        /\ Len(queue[t]) <= 1
        /\ ~Terminal(t) => queue[t] = <<>>
        /\ (Began(t) /\ Terminal(t)) =>
            /\ exit[t] = "sent_result" => queue[t] = <<Event(t, "result", pending[t])>>
            /\ exit[t] = "sent_error" =>
                 queue[t] = <<Event(t, "error", ProcessingFailedText(EnqueueError))>>
            /\ queue[t] = <<>> =>
                 \/ cancelled /\ CancelExit(t)
                 \/ exit[t] = "raised" /\ enqFails[t] = 2
            /\ (delegate[t] = "failed" /\ enqFails[t] = 0 /\ ~CancelExit(t)) =>
                 Len(queue[t]) = 1

C3_Witness ==
    \E t \in Tasks :
        /\ Terminal(t) /\ delegate[t] = "failed"
        /\ exit[t] = "sent_error" /\ enqFails[t] = 1 /\ Len(queue[t]) = 1

\* C4: a task for which no cancel was ever requested is never cut short by
\* cancellation: it invokes the delegate and leaves by an emit.
C4_TasksIndependent ==
    \A t \in Tasks :
        (cancelAt[t] = {} /\ Terminal(t)) => (calls[t] = 1 /\ ~CancelExit(t))

\* C5: a failed delegate call of a task that was not cancelled ends Failed,
\* a returned text ends Completed with that text, and a failed call is never
\* a Completed result.
C5_FailureIsFailed ==
    \A t \in Tasks :
        Terminal(t) =>
            /\ (delegate[t] = "failed" /\ ~CancelExit(t)) => TaskState(t) = "Failed"
            /\ delegate[t] = "failed" => TaskState(t) # "Completed"
            /\ (delegate[t] = "returned" /\ exit[t] = "sent_result") =>
                 /\ TaskState(t) = "Completed"
                 /\ queue[t][1].text \in DelegateTexts

\* C6 (as stated): a delegate failure comes back as invoke's error text and
\* no exception leaves execute on any path.
C6_NothingEscapes ==
    \A t \in Tasks :
        /\ (delegate[t] = "failed" /\ pc[t] = "enq_result") =>
             pending[t] \in {InvokeErrorText(e) : e \in DelegateErrors}
        /\ exit[t] # "raised"

\* C6 (amended): a delegate failure comes back as invoke's error text, which
\* execute submits as the task's event; a delegate failure alone never makes
\* execute raise: an exception leaves execute only when enqueue_event raised
\* for the result and then again for the error response.
C6_OnlyEnqueueEscapes ==
    \A t \in Tasks :
        /\ (delegate[t] = "failed" /\ pc[t] = "enq_result") =>
             pending[t] \in {InvokeErrorText(e) : e \in DelegateErrors}
        /\ (delegate[t] = "failed" /\ exit[t] = "sent_result") =>
             queue[t] \in {<<Event(t, "result", InvokeErrorText(e))>> : e \in DelegateErrors}
        /\ exit[t] = "raised" <=> enqFails[t] = 2
        /\ enqFails[t] = 1 =>
             pending[t] \in {InvokeErrorText(e) : e \in DelegateErrors} \cup DelegateTexts
                            \cup {ProcessingFailedText(EnqueueError)}
        /\ pc[t] = "enq_error" => enqFails[t] = 1

C6_Witness ==
    \E t \in Tasks :
        Terminal(t) /\ delegate[t] = "failed" /\ exit[t] = "sent_result" /\ enqFails[t] = 0

\* C7: while a task is inside the delegate call, every other unfinished task
\* can take a step, and a cancel can be issued.
C7_DelegateCallNeverBlocks ==
    \A t \in Tasks :
        pc[t] = "invoke" =>
            /\ ENABLED Cancel(t)
            /\ \A u \in Tasks \ {t} : ~Terminal(u) => ENABLED Execute(u)

\* C8: the delegate is invoked at most once per task, also when it fails.
C8_NeverRetries ==
    \A t \in Tasks :
        /\ calls[t] <= 1
        /\ delegate[t] # "none" => calls[t] = 1

C8_Witness ==
    \E t \in Tasks : Terminal(t) /\ delegate[t] = "failed" /\ calls[t] = 1

\* C9: the cancellation flag starts false and never goes from true to false.
C9_FlagMonotonic == (cancelled = FALSE) /\ [][cancelled => cancelled']_vars

C9_Witness ==
    /\ cancelled
    /\ \E t \in Tasks : exit[t] = "early_return"
    /\ \E t \in Tasks : exit[t] = "discarded"

\* C10: a cancel issued for a task that is already terminal has no effect:
\* as long as every cancel so far was such a late one, no task is cut short
\* by cancellation.
C10_LateCancelHarmless ==
    (\A t \in Tasks : cancelAt[t] \subseteq {"after"}) =>
        \A u \in Tasks : ~CancelExit(u)

\* What the lifecycle and the result of task t are made of.
TaskRecord(t) == <<pc[t], exit[t], queue[t], pending[t], delegate[t], calls[t], payload[t]>>

\* Created -> Running -> terminal; the early return of lines 91-92 enters
\* and leaves execute in one step, so Created -> Cancelled is that path.
LifecycleMoves ==
    {<<"Created", "Running">>, <<"Created", "Cancelled">>,
     <<"Running", "Completed">>, <<"Running", "Failed">>, <<"Running", "Cancelled">>}

C12_ConfigFailFast ==
    /\ executor.status # "unbuilt" =>
          (executor.missing # {} <=> executor.status = "config_error")
    /\ executor.status # "ok" =>
          /\ ~cancelled
          /\ \A t \in Tasks : pc[t] = "created" /\ calls[t] = 0 /\ queue[t] = <<>>

C12_Witness ==
    executor.status = "config_error" /\ executor.missing = {"deployment_name"}

\* C19: while the flag is set, a step of a task that has not started never
\* invokes the delegate and never emits: the task stays put or returns.
C19_CancelledNeverInvokes ==
    [][\A t \in Tasks :
          (cancelled /\ pc[t] = "created") =>
              /\ calls'[t] = calls[t]
              /\ payload'[t] = payload[t]
              /\ queue'[t] = queue[t]
              /\ pc'[t] \in {"created", "done"}]_vars

C19_Witness ==
    /\ cancelled
    /\ \A t \in Tasks : exit[t] = "early_return" /\ calls[t] = 0

\* ==================================================== data model (models.py)
MaxItems == 2
MaxAltered == 2

\* Python / JSON values, tagged so that values of different types compare.
None == <<"none">>
S(x) == <<"str", x>>
N(n) == <<"num", n>>
B(b) == <<"bool", b>>
L(seq) == <<"list", seq>>
IsNone(v) == v[1] = "none"

\* dict.get(key, default); dict.get(key) is Get(d, key, None).  A key that is
\* present with the value null yields null, not the default.
Get(d, key, default) == IF key \in DOMAIN d THEN d[key] ELSE default

\* PurchaseOrderItem.to_dict, lines 18-25.
ItemToDict(i) ==
    [itemCode    |-> i.item_code,
     description |-> i.description,
     quantity    |-> i.quantity,
     unitPrice   |-> i.unit_price,
     lineTotal   |-> i.line_total]

\* PurchaseOrderItem.from_dict, lines 27-35.
ItemFromDict(d) ==
    [item_code   |-> Get(d, "itemCode", None),
     description |-> Get(d, "description", None),
     quantity    |-> Get(d, "quantity", N(0)),
     unit_price  |-> Get(d, "unitPrice", N(0)),
     line_total  |-> Get(d, "lineTotal", N(0))]

\* The list comprehensions of to_dict (line 86) and from_dict (line 101).
ItemsToDicts(items) == [k \in 1 .. Len(items) |-> ItemToDict(items[k])]
ItemsFromDicts(dicts) == [k \in 1 .. Len(dicts) |-> ItemFromDict(dicts[k])]

\* PurchaseOrder.to_dict, lines 77-97.
POToDict(p) ==
    [supplierName         |-> p.supplier_name,
     supplierAddressLine1 |-> p.supplier_address_line1,
     supplierAddressLine2 |-> p.supplier_address_line2,
     supplierCity         |-> p.supplier_city,
     supplierState        |-> p.supplier_state,
     supplierPostalCode   |-> p.supplier_postal_code,
     supplierCountry      |-> p.supplier_country,
     items                |-> L(ItemsToDicts(p.items)),
     poNumber             |-> p.po_number,
     createdBy            |-> p.created_by,
     buyerDepartment      |-> p.buyer_department,
     notes                |-> p.notes,
     taxRate              |-> p.tax_rate,
     subTotal             |-> p.sub_total,
     tax                  |-> p.tax,
     grandTotal           |-> p.grand_total,
     isApproved           |-> p.is_approved,
     approvalReason       |-> p.approval_reason]

\* The constructor call of from_dict, lines 102-121, given the item list.
POFields(data, items) ==
    [supplier_name          |-> Get(data, "supplierName", None),
     supplier_address_line1 |-> Get(data, "supplierAddressLine1", None),
     supplier_address_line2 |-> Get(data, "supplierAddressLine2", None),
     supplier_city          |-> Get(data, "supplierCity", None),
     supplier_state         |-> Get(data, "supplierState", None),
     supplier_postal_code   |-> Get(data, "supplierPostalCode", None),
     supplier_country       |-> Get(data, "supplierCountry", None),
     items                  |-> items,
     po_number              |-> Get(data, "poNumber", None),
     created_by             |-> Get(data, "createdBy", None),
     buyer_department       |-> Get(data, "buyerDepartment", None),
     notes                  |-> Get(data, "notes", None),
     tax_rate               |-> Get(data, "taxRate", N(0)),
     sub_total              |-> Get(data, "subTotal", N(0)),
     tax                    |-> Get(data, "tax", N(0)),
     grand_total            |-> Get(data, "grandTotal", N(0)),
     is_approved            |-> Get(data, "isApproved", B(FALSE)),
     approval_reason        |-> Get(data, "approvalReason", None)]

\* Result of a call: the value returned, or the exception raised.
Ok(v) == <<"ok", v>>
Raised(e) == <<"error", e>>

\* Variant of POFromDict that reads address line 1 for both address lines.
POFromDict_WrongKey(data) ==
    LET raw == Get(data, "items", L(<<>>))
    IN  IF IsNone(raw) THEN Raised("TypeError")
        ELSE Ok([POFields(data, ItemsFromDicts(raw[2])) EXCEPT
                    !.supplier_address_line2 = Get(data, "supplierAddressLine1", None)])

\* Variant of POFromDict that leaves the approval fields at their defaults.
POFromDict_IgnoresApproval(data) ==
    LET raw == Get(data, "items", L(<<>>))
    IN  IF IsNone(raw) THEN Raised("TypeError")
        ELSE Ok([POFields(data, ItemsFromDicts(raw[2])) EXCEPT
                    !.is_approved = B(FALSE), !.approval_reason = None])

\* PurchaseOrder.from_dict, lines 99-121.  Line 101 iterates over
\* data.get("items", []): a present null is not iterable.
POFromDict(data) ==
    LET raw == Get(data, "items", L(<<>>))
    IN  IF IsNone(raw) THEN Raised("TypeError")
        ELSE Ok(POFields(data, ItemsFromDicts(raw[2])))

\* PurchaseOrderApproval.to_dict, lines 139-144.
ApprovalToDict(a) ==
    [poNumber       |-> a.po_number,
     isApproved     |-> a.is_approved,
     approvalReason |-> a.approval_reason]

\* PurchaseOrderApproval.from_dict, lines 146-152.
ApprovalFromDict(d) ==
    [po_number       |-> Get(d, "poNumber", None),
     is_approved     |-> Get(d, "isApproved", B(FALSE)),
     approval_reason |-> Get(d, "approvalReason", None)]

\* ------------------------------------------------------------ data inputs
ItemVals ==
    [item_code : {None, S("SKU-1")}, description : {S("Laptop")},
     quantity : {N(0), N(3)}, unit_price : {N(250)}, line_total : {N(750)}]

\* Item lists of the orders (two of the item values, any order, repeats).
ListedItems == {i \in ItemVals : i.quantity = N(3)}

ItemSeqs == UNION {[1 .. n -> ListedItems] : n \in 0 .. MaxItems}

StringFields ==
    {"supplier_name", "supplier_address_line1", "supplier_address_line2",
     "supplier_city", "supplier_state", "supplier_postal_code", "supplier_country",
     "po_number", "created_by", "buyer_department", "notes", "approval_reason"}

BasePO ==
    [supplier_name          |-> S("Tech Supply Co"),
     supplier_address_line1 |-> S("1 Main St"),
     supplier_address_line2 |-> S("Suite 2"),
     supplier_city          |-> S("Seattle"),
     supplier_state         |-> S("WA"),
     supplier_postal_code   |-> S("98101"),
     supplier_country       |-> S("USA"),
     items                  |-> <<>>,
     po_number              |-> S("PO-1"),
     created_by             |-> S("alice"),
     buyer_department       |-> S("IT"),
     notes                  |-> S("rush"),
     tax_rate               |-> N(10),
     sub_total              |-> N(750),
     tax                    |-> N(75),
     grand_total            |-> N(825),
     is_approved            |-> B(FALSE),
     approval_reason        |-> S("within limits")]

SmallSubsets(set) == {K \in SUBSET set : Cardinality(K) <= MaxAltered}

\* Purchase orders: some optional strings null, any item list, either flag.
POs ==
    {[f \in DOMAIN BasePO |->
         CASE f \in K -> None
           [] f = "items" -> items
           [] f = "is_approved" -> B(approved)
           [] OTHER -> BasePO[f]] :
     K \in SmallSubsets(StringFields), items \in ItemSeqs, approved \in BOOLEAN}

Approvals ==
    [po_number : {None, S("PO-1")}, is_approved : {B(FALSE), B(TRUE)},
     approval_reason : {None, S("within limits")}]

PayloadKeys == DOMAIN POToDict(BasePO)

FullPayloads ==
    {POToDict(BasePO),
     POToDict([BasePO EXCEPT !.is_approved = B(TRUE),
                             !.items = <<CHOOSE v \in ListedItems : TRUE>>])}

\* Serialized orders in which a few keys are altered: absent, or null.
AlteredPayload(full, altered, absent) ==
    [k \in PayloadKeys \ absent |-> IF k \in altered THEN None ELSE full[k]]

Contexts == [content : ContentVals, message : MessageVals]

\* ------------------------------------------ business rule evaluator
ApprovalThreshold == 1000
DepartmentWhitelist == {"Travel", "Marketing", "IT", "HR"}

SupplierPresent(po) == ~IsNone(po.supplier_name) /\ po.supplier_name # S("")
DepartmentAllowed(po) ==
    ~IsNone(po.buyer_department) /\ po.buyer_department[2] \in DepartmentWhitelist

Decision(po, approved, reason) ==
    [po_number |-> po.po_number, is_approved |-> B(approved), approval_reason |-> S(reason)]

\* Variant of Evaluate that looks at the supplier before the total.
Evaluate_SupplierFirst(po) ==
    IF ~SupplierPresent(po) THEN Decision(po, FALSE, "supplier name is missing")
    ELSE IF po.grand_total[2] >= ApprovalThreshold
         THEN Decision(po, FALSE, "grand total exceeds threshold")
    ELSE IF ~DepartmentAllowed(po) THEN Decision(po, FALSE, "invalid buyer department")
    ELSE Decision(po, TRUE, "approved")

\* Variant of Evaluate that rejects only totals above the threshold.
Evaluate_StrictlyAbove(po) ==
    IF po.grand_total[2] > ApprovalThreshold
    THEN Decision(po, FALSE, "grand total exceeds threshold")
    ELSE IF ~SupplierPresent(po) THEN Decision(po, FALSE, "supplier name is missing")
    ELSE IF ~DepartmentAllowed(po) THEN Decision(po, FALSE, "invalid buyer department")
    ELSE Decision(po, TRUE, "approved")

\* The three rules, in order, short-circuit on the first failure.
Evaluate(po) ==
    IF po.grand_total[2] >= ApprovalThreshold
    THEN Decision(po, FALSE, "grand total exceeds threshold")
    ELSE IF ~SupplierPresent(po) THEN Decision(po, FALSE, "supplier name is missing")
    ELSE IF ~DepartmentAllowed(po) THEN Decision(po, FALSE, "invalid buyer department")
    ELSE Decision(po, TRUE, "approved")

\* Orders for the evaluator; amounts are whole currency units.
Orders ==
    {[BasePO EXCEPT !.supplier_name = s, !.buyer_department = d, !.grand_total = N(g)] :
     s \in {None, S(""), S("Tech Supply Co"), S("Acme")},
     d \in {None, S(""), S("Travel"), S("Marketing"), S("IT"), S("HR"), S("Sales")},
     g \in {0, 500, 999, 1000, 2160}}

\* --------------------------------------------------------------- SpecData
InitData ==
    /\ InitExec
    /\ executor = [status |-> "unbuilt", missing |-> {}]
    /\ StoreIdle
    /\ fn = "idle"
    /\ res = <<>>
    /\ \/ \E p \in POs : arg = <<"po", p>>
       \/ \E i \in ItemVals : arg = <<"item", i>>
       \/ \E a \in Approvals : arg = <<"approval", a>>
       \/ \E full \in FullPayloads, altered \in SmallSubsets(PayloadKeys) :
             \E absent \in SUBSET altered :
                 arg = <<"payload", AlteredPayload(full, altered, absent)>>
       \/ \E o \in Orders : arg = <<"order", o>>
       \/ \E c \in Contexts : arg = <<"context", c>>

Apply(kind, name, result) ==
    /\ fn = "idle"
    /\ arg[1] = kind
    /\ fn' = name
    /\ res' = result
    /\ UNCHANGED <<execVars, executor, arg, store>>

\* from_dict(to_dict(p)) for the three model classes.
PORoundTrip == Apply("po", "po_round_trip", POFromDict(POToDict(arg[2])))
ItemRoundTrip == Apply("item", "item_round_trip", Ok(ItemFromDict(ItemToDict(arg[2]))))
ApprovalRoundTrip ==
    Apply("approval", "approval_round_trip", Ok(ApprovalFromDict(ApprovalToDict(arg[2]))))

\* PurchaseOrder.from_dict on an incoming payload.
POIntake == Apply("payload", "intake", POFromDict(arg[2]))

\* The evaluator on an order.
EvaluateOrder == Apply("order", "evaluate", Ok(Evaluate(arg[2])))

\* execute lines 94-99 followed by invoke line 67.
SelectPayload ==
    Apply("context", "select_payload",
          Ok(UserPayload(InputMessage(arg[2].content, arg[2].message))))

NextData ==
    \/ PORoundTrip
    \/ ItemRoundTrip
    \/ ApprovalRoundTrip
    \/ POIntake
    \/ EvaluateOrder
    \/ SelectPayload

SpecData == InitData /\ [][NextData]_vars

\* ------------------------------------------------------ claims on the data
\* C13: from_dict(to_dict(x)) gives x back, field for field and item for
\* item, for purchase orders (also with no items and with null optional
\* fields), items and approvals.
C13_RoundTripLossless ==
    /\ fn = "po_round_trip" => res = Ok(arg[2])
    /\ fn = "item_round_trip" => res = Ok(arg[2])
    /\ fn = "approval_round_trip" => res = Ok(arg[2])

C13_Witness ==
    /\ fn = "po_round_trip"
    /\ IsNone(arg[2].notes) /\ IsNone(arg[2].supplier_name)
    /\ Len(arg[2].items) = 2 /\ arg[2].items[1] # arg[2].items[2]
    /\ res[1] = "ok"

\* The attribute a serialized key is read into, and its default.
FieldOf(k) ==
    CASE k = "supplierName" -> "supplier_name"
      [] k = "supplierAddressLine1" -> "supplier_address_line1"
      [] k = "supplierAddressLine2" -> "supplier_address_line2"
      [] k = "supplierCity" -> "supplier_city"
      [] k = "supplierState" -> "supplier_state"
      [] k = "supplierPostalCode" -> "supplier_postal_code"
      [] k = "supplierCountry" -> "supplier_country"
      [] k = "items" -> "items"
      [] k = "poNumber" -> "po_number"
      [] k = "createdBy" -> "created_by"
      [] k = "buyerDepartment" -> "buyer_department"
      [] k = "notes" -> "notes"
      [] k = "taxRate" -> "tax_rate"
      [] k = "subTotal" -> "sub_total"
      [] k = "tax" -> "tax"
      [] k = "grandTotal" -> "grand_total"
      [] k = "isApproved" -> "is_approved"
      [] OTHER -> "approval_reason"

NumericKeys == {"taxRate", "subTotal", "tax", "grandTotal"}

HasDefault(po, k) ==
    CASE k = "items" -> po.items = <<>>
      [] k \in NumericKeys -> po[FieldOf(k)] = N(0)
      [] k = "isApproved" -> po.is_approved = B(FALSE)
      [] OTHER -> IsNone(po[FieldOf(k)])

\* C14: from_dict never fails on a payload whose keys are absent or null, and
\* every such key comes out as its default.
C14_MissingOrNullDefaults ==
    fn = "intake" =>
        /\ res[1] = "ok"
        /\ \A k \in PayloadKeys :
             (k \notin DOMAIN arg[2] \/ IsNone(arg[2][k])) => HasDefault(res[2], k)

\* C15 (as stated): whatever the payload says, the order from_dict produces
\* has the approval flag and reason unset.
C15_IntakeLeavesApprovalUnset ==
    (fn = "intake" /\ res[1] = "ok") =>
        res[2].is_approved = B(FALSE) /\ IsNone(res[2].approval_reason)

\* C15 (amended): from_dict copies isApproved and approvalReason from the
\* payload and leaves them unset when the payload omits them.
C15_IntakeCopiesApproval ==
    (fn = "intake" /\ res[1] = "ok") =>
        /\ res[2].is_approved =
             IF "isApproved" \in DOMAIN arg[2] THEN arg[2].isApproved ELSE B(FALSE)
        /\ res[2].approval_reason =
             IF "approvalReason" \in DOMAIN arg[2] THEN arg[2].approvalReason ELSE None

C15_Witness ==
    /\ fn = "intake" /\ res[1] = "ok"
    /\ "isApproved" \in DOMAIN arg[2] /\ arg[2].isApproved = B(TRUE)
    /\ "approvalReason" \notin DOMAIN arg[2]
    /\ res[2].is_approved = B(TRUE) /\ IsNone(res[2].approval_reason)

Qualifies(po) ==
    /\ po.grand_total[2] < 1000
    /\ po.supplier_name \notin {None, S("")}
    /\ po.buyer_department \in {S("Travel"), S("Marketing"), S("IT"), S("HR")}

\* C16: the evaluator always returns a decision, approved exactly when the
\* grand total is below 1000, the supplier name is non-empty and the buyer
\* department is whitelisted.
C16_ApprovedIffAllRulesPass ==
    fn = "evaluate" =>
        /\ res[1] = "ok"
        /\ res[2].is_approved \in {B(TRUE), B(FALSE)}
        /\ res[2].is_approved = B(TRUE) <=> Qualifies(arg[2])

C16_Witness ==
    /\ fn = "evaluate"
    /\ arg[2].grand_total = N(999) /\ arg[2].buyer_department = S("HR")
    /\ res[2].is_approved = B(TRUE)

\* C17: a rejection names the first violated rule: total, then supplier,
\* then department.
C17_FirstViolatedRule ==
    (fn = "evaluate" /\ res[2].is_approved = B(FALSE)) =>
        LET po == arg[2]
            totalOk == po.grand_total[2] < 1000
            supplierOk == po.supplier_name \notin {None, S("")}
        IN  res[2].approval_reason =
              CASE ~totalOk -> S("grand total exceeds threshold")
                [] totalOk /\ ~supplierOk -> S("supplier name is missing")
                [] OTHER -> S("invalid buyer department")

C17_Witness ==
    /\ fn = "evaluate"
    /\ arg[2].grand_total = N(2160) /\ IsNone(arg[2].supplier_name)
    /\ arg[2].buyer_department = S("Sales")
    /\ res[2].approval_reason = S("grand total exceeds threshold")

NonEmpty(v) == v \notin {Missing, ""}

\* C20: the delegate gets the context's non-empty content, else its
\* non-empty message, else the greeting prompt; never the empty string.
C20_PayloadSelection ==
    fn = "select_payload" =>
        /\ res[1] = "ok"
        /\ res[2] # ""
        /\ NonEmpty(arg[2].content) => res[2] = arg[2].content
        /\ (~NonEmpty(arg[2].content) /\ NonEmpty(arg[2].message)) => res[2] = arg[2].message
        /\ (~NonEmpty(arg[2].content) /\ ~NonEmpty(arg[2].message)) =>
             res[2] = "Hello, please introduce yourself."

C20_Witness ==
    /\ fn = "select_payload"
    /\ arg[2].content = "po-json" /\ arg[2].message = "po-msg"
    /\ res = Ok("po-json")

\* ============================================================== task store
MaxTaskIds == 3

TaskIds == 1 .. MaxTaskIds

\* Identities a caller may ask for, one more than can ever be submitted.
QueryIds == 1 .. MaxTaskIds + 1

NotFound == <<"not_found">>

\* The record kept per task: lifecycle state and, once terminal, the result.
NewTask == [state |-> "Created", result |-> None]

\* submit: allocate the next identity, keep the record, return the identity.
SubmitTask ==
    /\ Len(store) < MaxTaskIds
    /\ store' = Append(store, NewTask)
    /\ fn' = "submit"
    /\ arg' = <<>>
    /\ res' = Ok(Len(store) + 1)
    /\ UNCHANGED <<execVars, executor>>

\* The lifecycle manager records the progress of a task it owns.
RecordProgress(id) ==
    /\ id \in DOMAIN store
    /\ \/ /\ store[id].state = "Created"
          /\ store' = [store EXCEPT ![id].state = "Running"]
       \/ /\ store[id].state = "Running"
          /\ \E outcome \in {"Completed", "Failed", "Cancelled"} :
               store' = [store EXCEPT ![id] =
                           [state |-> outcome,
                            result |-> IF outcome = "Cancelled" THEN None ELSE S(outcome)]]
    /\ fn' = "record"
    /\ arg' = <<"id", id>>
    /\ res' = <<>>
    /\ UNCHANGED <<execVars, executor>>

\* Variant of GetTask that creates a record for an identity it does not know.
GetTask_CreatesOnMiss(id) ==
    /\ fn' = "get_task"
    /\ arg' = <<"id", id>>
    /\ IF id \in DOMAIN store
       THEN res' = Ok(store[id]) /\ store' = store
       ELSE res' = Ok(NewTask) /\ store' = Append(store, NewTask)
    /\ UNCHANGED <<execVars, executor>>

\* get: the current record, or the not-found error value; the store is only
\* read.
GetTask(id) ==
    /\ fn' = "get_task"
    /\ arg' = <<"id", id>>
    /\ res' = IF id \in DOMAIN store THEN Ok(store[id]) ELSE NotFound
    /\ store' = store
    /\ UNCHANGED <<execVars, executor>>

NextStore ==
    \/ SubmitTask
    \/ \E id \in TaskIds : RecordProgress(id)
    \/ \E id \in QueryIds : GetTask(id)

SpecStore == Init /\ [][NextStore]_vars

\* C18: a query for an identity that was never submitted answers with the
\* not-found error value and leaves the store and every record as they were.
C18_UnknownTaskNotFound ==
    [][fn' = "get_task" =>
          /\ store' = store
          /\ arg'[2] \notin DOMAIN store => res' = NotFound
          /\ arg'[2] \in DOMAIN store => res' = Ok(store[arg'[2]])]_vars

C18_Witness ==
    /\ fn = "get_task" /\ res = NotFound
    /\ Len(store) = 2 /\ arg[2] = 3
    /\ store[1].state = "Completed" /\ store[2].state = "Running"

====
